---- MODULE Spec2Model ----
(***************************************************************************)
(* image2math: the LaTeX-to-clean-MathML pipeline of ResultDisplay.tsx     *)
(* (generateMathML): the regular-expression scan of the markdown, the      *)
(* per-span call of katex.renderToString, the DOM rewrites of the <math>   *)
(* tree and the assembly of the output string.                             *)
(***************************************************************************)
EXTENDS Integers, Sequences, FiniteSets, TLC

\* ------------------------------------------------------------------------
\* Bounds of the model
\* ------------------------------------------------------------------------
\* longest markdown text, in characters
MaxLen == 9
\* most nodes below the <math> root of a tree given to the normalizer alone
MaxNodes == 4

\* the characters of a markdown text: the delimiter, a letter, the backslash
Alphabet == {"$", "a", "\\"}

Texts == UNION {[1..n -> Alphabet] : n \in 0..MaxLen}

\* ------------------------------------------------------------------------
\* JavaScript values: a string, or undefined (an unmatched capture group)
\* ------------------------------------------------------------------------
Undefined == [def |-> FALSE, str |-> <<>>]

Str(s) == [def |-> TRUE, str |-> s]

\* ToBoolean: undefined and the empty string are falsy
Truthy(v) == v.def /\ v.str # <<>>

\* a || b
Or(a, b) == IF Truthy(a) THEN a ELSE b

\* ------------------------------------------------------------------------
\* latexRegex = /\$\$([\s\S]*?)\$\$|\$((?!\$)[\s\S]*?)\$/g
\* Positions are 1-based; lastIndex keeps JavaScript's 0-based value, so the
\* next attempt starts at position lastIndex + 1.
\* ------------------------------------------------------------------------
NoMatch == [found |-> FALSE, index |-> 0, lastIndex |-> 0, alt |-> "none",
            g1 |-> Undefined, g2 |-> Undefined]

\* a delimiter test that skips a "$" escaped by a backslash
IsDollarAt_Unescaped(text, i) ==
    /\ i >= 1
    /\ i <= Len(text)
    /\ text[i] = "$"
    /\ ~(i >= 2 /\ text[i - 1] = "\\")

IsDollarAt(text, i) == i >= 1 /\ i <= Len(text) /\ text[i] = "$"

RECURSIVE FindBlockClose_Last(_, _)
\* a greedy [\s\S]*\$\$ : the last position where "$$" starts, 0 if none
FindBlockClose_Last(text, j) ==
    IF j + 1 > Len(text) THEN 0
    ELSE IF FindBlockClose_Last(text, j + 1) # 0
    THEN FindBlockClose_Last(text, j + 1)
    ELSE IF text[j] = "$" /\ text[j + 1] = "$" THEN j
    ELSE 0

\* [\s\S]*?\$\$ : the first position j >= from where "$$" starts, 0 if none
RECURSIVE FindBlockClose(_, _)
FindBlockClose(text, j) ==
    IF j + 1 > Len(text) THEN 0
    ELSE IF text[j] = "$" /\ text[j + 1] = "$" THEN j
    ELSE FindBlockClose(text, j + 1)

\* [\s\S]*?\$ : the first position j >= from holding "$", 0 if none
RECURSIVE FindInlineClose(_, _)
FindInlineClose(text, j) ==
    IF j > Len(text) THEN 0
    ELSE IF text[j] = "$" THEN j
    ELSE FindInlineClose(text, j + 1)

\* first alternative, anchored at position i: \$\$([\s\S]*?)\$\$
MatchBlockAt(text, i) ==
    IF IsDollarAt(text, i) /\ IsDollarAt(text, i + 1)
    THEN LET j == FindBlockClose(text, i + 2)
         IN IF j = 0 THEN NoMatch
            ELSE [found |-> TRUE, index |-> i, lastIndex |-> j + 1,
                  alt |-> "block",
                  g1 |-> Str(SubSeq(text, i + 2, j - 1)), g2 |-> Undefined]
    ELSE NoMatch

\* second alternative, anchored at position i: \$((?!\$)[\s\S]*?)\$
MatchInlineAt(text, i) ==
    IF IsDollarAt(text, i) /\ ~IsDollarAt(text, i + 1)
    THEN LET j == FindInlineClose(text, i + 1)
         IN IF j = 0 THEN NoMatch
            ELSE [found |-> TRUE, index |-> i, lastIndex |-> j,
                  alt |-> "inline",
                  g1 |-> Undefined, g2 |-> Str(SubSeq(text, i + 1, j - 1))]
    ELSE NoMatch

\* the regex engine: leftmost start, first alternative first
RECURSIVE ExecFrom(_, _)
ExecFrom(text, i) ==
    IF i > Len(text) THEN NoMatch
    ELSE IF MatchBlockAt(text, i).found THEN MatchBlockAt(text, i)
    ELSE IF MatchInlineAt(text, i).found THEN MatchInlineAt(text, i)
    ELSE ExecFrom(text, i + 1)

\* latexRegex.exec(markdown) with the cursor at lastIdx
RegexExec(text, lastIdx) == ExecFrom(text, lastIdx + 1)

\* ------------------------------------------------------------------------
\* The DOM tree of a <math> element: a node is [tag, kids]; a text node has
\* the tag "#text" and no kids.  A path is the sequence of child positions
\* leading from the root to a node.
\* ------------------------------------------------------------------------
ElementTags == {"annotation", "semantics", "mrow", "mi"}

TextNode == [tag |-> "#text", kids |-> <<>>, attrs |-> <<>>]

\* the attributes katex writes: xmlns on <math>, mathvariant on <mi>
AttrsOf(t) ==
    IF t = "math" THEN <<"xmlns">>
    ELSE IF t = "mi" THEN <<"mathvariant">>
    ELSE <<>>

Element(t, ks) == [tag |-> t, kids |-> ks, attrs |-> AttrsOf(t)]

RECURSIVE Forests(_)
RECURSIVE TreesOfSize(_)
\* the ordered forests with exactly n nodes
Forests(n) ==
    IF n = 0 THEN {<<>>}
    ELSE UNION {{<<t>> \o f : t \in TreesOfSize(k), f \in Forests(n - k)} :
                k \in 1..n}

\* the trees with exactly n nodes
TreesOfSize(n) ==
    {Element(t, f) : t \in ElementTags, f \in Forests(n - 1)}
        \cup (IF n = 1 THEN {TextNode} ELSE {})

\* the <math> roots with at most n nodes below them
MathTrees(n) == {Element("math", f) : f \in UNION {Forests(k) : k \in 0..n}}

RECURSIVE ElementsFrom(_, _, _, _)
\* paths, in document order, of the elements named tag in kids[i..] and below
ElementsFrom(kids, i, prefix, tag) ==
    IF i > Len(kids) THEN <<>>
    ELSE LET p == Append(prefix, i)
             self == IF kids[i].tag = tag THEN <<p>> ELSE <<>>
         IN self \o ElementsFrom(kids[i].kids, 1, p, tag)
                 \o ElementsFrom(kids, i + 1, prefix, tag)

RECURSIVE DirectChildrenNamed(_, _, _)
DirectChildrenNamed(kids, i, tag) ==
    IF i > Len(kids) THEN <<>>
    ELSE (IF kids[i].tag = tag THEN <<<<i>>>> ELSE <<>>)
             \o DirectChildrenNamed(kids, i + 1, tag)

\* a lookup that sees only the children of the root, not all descendants
GetElementsByTagName_ChildrenOnly(root, tag) ==
    DirectChildrenNamed(root.kids, 1, tag)

\* mathRoot.getElementsByTagName(tag): the descendants, in document order
GetElementsByTagName(root, tag) == ElementsFrom(root.kids, 1, <<>>, tag)

RECURSIVE RemoveChild_KeepsContent(_, _)
\* a removal that takes out the element but leaves what it held in place
RemoveChild_KeepsContent(root, path) ==
    IF Len(path) = 1
    THEN [root EXCEPT !.kids = SubSeq(@, 1, path[1] - 1)
                                 \o @[path[1]].kids
                                 \o SubSeq(@, path[1] + 1, Len(@))]
    ELSE [root EXCEPT !.kids[path[1]] =
                          RemoveChild_KeepsContent(@, Tail(path))]

RECURSIVE RemoveChild(_, _)
\* node.parentNode.removeChild(node) for the node at path
RemoveChild(root, path) ==
    IF Len(path) = 1
    THEN [root EXCEPT !.kids = SubSeq(@, 1, path[1] - 1)
                                 \o SubSeq(@, path[1] + 1, Len(@))]
    ELSE [root EXCEPT !.kids[path[1]] = RemoveChild(@, Tail(path))]

RECURSIVE PromoteChildren_AtEnd(_, _)
\* an unwrap that appends the children to the parent (appendChild)
PromoteChildren_AtEnd(root, path) ==
    IF Len(path) = 1
    THEN [root EXCEPT !.kids = SubSeq(@, 1, path[1] - 1)
                                 \o SubSeq(@, path[1] + 1, Len(@))
                                 \o @[path[1]].kids]
    ELSE [root EXCEPT !.kids[path[1]] = PromoteChildren_AtEnd(@, Tail(path))]

RECURSIVE PromoteChildren_KeepsWrapper(_, _)
\* an unwrap that moves the children out but never removes the wrapper
PromoteChildren_KeepsWrapper(root, path) ==
    IF Len(path) = 1
    THEN [root EXCEPT !.kids = SubSeq(@, 1, path[1] - 1)
                                 \o @[path[1]].kids
                                 \o <<[@[path[1]] EXCEPT !.kids = <<>>]>>
                                 \o SubSeq(@, path[1] + 1, Len(@))]
    ELSE [root EXCEPT !.kids[path[1]] =
                          PromoteChildren_KeepsWrapper(@, Tail(path))]

RECURSIVE PromoteChildren(_, _)
\* while (elem.firstChild) parent.insertBefore(elem.firstChild, elem);
\* parent.removeChild(elem)   for the node elem at path
PromoteChildren(root, path) ==
    IF Len(path) = 1
    THEN [root EXCEPT !.kids = SubSeq(@, 1, path[1] - 1)
                                 \o @[path[1]].kids
                                 \o SubSeq(@, path[1] + 1, Len(@))]
    ELSE [root EXCEPT !.kids[path[1]] = PromoteChildren(@, Tail(path))]

\* node.children: the positions of the element children (text nodes skipped)
RECURSIVE ChildrenFrom(_, _)
ChildrenFrom(kids, i) ==
    IF i > Len(kids) THEN <<>>
    ELSE (IF kids[i].tag # "#text" THEN <<i>> ELSE <<>>)
             \o ChildrenFrom(kids, i + 1)

Children(node) == ChildrenFrom(node.kids, 1)

\* rule A: while (annotations.length > 0) remove annotations[0]
RECURSIVE StripAnnotations(_)
StripAnnotations(root) ==
    LET annotations == GetElementsByTagName(root, "annotation")
    IN IF Len(annotations) > 0
       THEN StripAnnotations(RemoveChild(root, annotations[1]))
       ELSE root

\* rule B: while (semantics.length > 0) promote the children of semantics[0]
RECURSIVE UnwrapSemantics(_)
UnwrapSemantics(root) ==
    LET semantics == GetElementsByTagName(root, "semantics")
    IN IF Len(semantics) > 0
       THEN UnwrapSemantics(PromoteChildren(root, semantics[1]))
       ELSE root

\* a rule C that removes the mrow without moving its children out first
UnwrapTopMrow_Dropped(root) ==
    LET children == Children(root)
    IN IF Len(children) = 1 /\ root.kids[children[1]].tag = "mrow"
       THEN [root EXCEPT !.kids = SubSeq(@, 1, children[1] - 1)
                                    \o SubSeq(@, children[1] + 1, Len(@))]
       ELSE root

\* rule C: a single element child named mrow is replaced by its children
UnwrapTopMrow(root) ==
    LET children == Children(root)
    IN IF Len(children) = 1 /\ root.kids[children[1]].tag = "mrow"
       THEN PromoteChildren(root, <<children[1]>>)
       ELSE root

NormalizeTree(root) == UnwrapTopMrow(UnwrapSemantics(StripAnnotations(root)))

\* ------------------------------------------------------------------------
\* Strings of markup are sequences of tokens <<kind, name>>
\* ------------------------------------------------------------------------
Tok(kind, name) == <<kind, name>>

\* the attributes of a start tag, in the order the element holds them
AttrToks(attrs) == [i \in 1..Len(attrs) |-> Tok("attr", attrs[i])]

RECURSIVE SerializeToString(_)
RECURSIVE SerializeAll(_, _)
\* new XMLSerializer().serializeToString(node)
SerializeToString(node) ==
    IF node.tag = "#text" THEN <<Tok("text", "x")>>
    ELSE IF node.kids = <<>>
    THEN <<Tok("empty", node.tag)>> \o AttrToks(node.attrs)
    ELSE <<Tok("open", node.tag)>> \o AttrToks(node.attrs)
             \o SerializeAll(node.kids, 1) \o <<Tok("close", node.tag)>>

SerializeAll(kids, i) ==
    IF i > Len(kids) THEN <<>>
    ELSE SerializeToString(kids[i]) \o SerializeAll(kids, i + 1)

\* "\n\n"
Separator == <<Tok("nl", ""), Tok("nl", "")>>

Sentinel == <<Tok("lit", "No mathematical formulas detected.")>>

KatexNotFound == <<Tok("lit", "KaTeX library not found.")>>

\* ------------------------------------------------------------------------
\* State
\* ------------------------------------------------------------------------
VARIABLES
    markdown,     \* the argument of generateMathML
    katex,        \* whether window.katex is present
    pc,           \* position in generateMathML
    lastIndex,    \* latexRegex.lastIndex
    match,        \* the result of the last latexRegex.exec
    output,       \* the string built so far
    count,        \* number of fragments appended
    result,       \* the value returned
    warnings,     \* number of console.warn calls
    calls,        \* the renderToString calls made: [latex, displayMode]
    spans,        \* what happened to every match, in loop order
    mathRoot,     \* the DOM tree under normalization
    npc,          \* position in the normalization of one tree
    cleanMathML,  \* the serialized tree
    rawTree,      \* the tree as the renderer produced it
    docs,         \* the markdown of the results still to be exported
    returned,     \* [markdown, result] of every finished generateMathML call
    renderer,     \* which deterministic renderer window.katex is
    images,       \* App state: the queue of uploaded images (their ids)
    results,      \* App state: the ResultItems
    appState,     \* App state: IDLE, PROCESSING, SUCCESS or ERROR
    progress,     \* App state: null or [current, total]
    runs,         \* the processImages calls made, each with its snapshot
    progressLog,  \* every value passed to setProgress, in call order
    converted,    \* the image ids handed to convertImageToMarkdown, in order
    errorMsg,     \* App state: null (no value) or a message
    uploaded,     \* the number of files read so far (the source of fresh ids)
    fileNames,    \* handleDownloadAll: the image lookups of the results left
    usedNames,    \* handleDownloadAll: usedNames, base name -> count
    zip,          \* handleDownloadAll: the entries of the JSZip object
    written       \* the names passed to zip.file, in call order

vars == <<markdown, katex, pc, lastIndex, match, output, count, result,
          warnings, calls, spans, mathRoot, npc, cleanMathML, rawTree,
          docs, returned, renderer,
          images, results, appState, progress, runs, progressLog, converted,
          errorMsg, uploaded,
          fileNames, usedNames, zip, written>>

zipVars == <<fileNames, usedNames, zip, written>>

callVars == <<docs, returned, renderer, zipVars>>

appVars == <<images, results, appState, progress, runs, progressLog,
             converted, errorMsg, uploaded>>

scanVars == <<markdown, katex, pc, lastIndex, match, output, count, result,
              warnings, calls, spans>>

normVars == <<mathRoot, npc, cleanMathML, rawTree>>

EmptyMath == Element("math", <<>>)

\* progress === null
Null == [set |-> FALSE, current |-> 0, total |-> 0]

\* no bulk export is running
\* no archive is being built
NoZip ==
    /\ fileNames = <<>>
    /\ usedNames = <<>>
    /\ zip = <<>>
    /\ written = <<>>

NoCalls ==
    /\ docs = <<>>
    /\ returned = <<>>
    /\ renderer = "any"
    /\ NoZip

\* the App as mounted: useState initial values, no run in flight
AppMounted ==
    /\ images = <<>>
    /\ results = <<>>
    /\ appState = "IDLE"
    /\ progress = Null
    /\ runs = <<>>
    /\ progressLog = <<>>
    /\ converted = <<>>
    /\ errorMsg = Undefined
    /\ uploaded = 0

\* <math><semantics><mrow><mi>x</mi></mrow><annotation>x</annotation>
\* </semantics></math>: the shape katex produces with output: 'mathml'
KatexTree ==
    Element("math",
        <<Element("semantics",
            <<Element("mrow", <<Element("mi", <<TextNode>>)>>),
              Element("annotation", <<TextNode>>)>>)>>)

\* <math><mi/><mrow><mi/></mrow></math>: a root that rule C leaves alone
PlainTree ==
    Element("math",
        <<Element("mi", <<>>), Element("mrow", <<Element("mi", <<>>)>>)>>)

\* the <math> elements the renderer can hand back for one span
RenderTrees == {KatexTree, PlainTree, EmptyMath}

\* ------------------------------------------------------------------------
\* generateMathML(markdown)
\* ------------------------------------------------------------------------
Init ==
    /\ markdown \in Texts
    /\ katex \in BOOLEAN
    /\ pc = "start"
    /\ lastIndex = 0
    /\ match = NoMatch
    /\ output = <<>>
    /\ count = 0
    /\ result = <<>>
    /\ warnings = 0
    /\ calls = <<>>
    /\ spans = <<>>
    /\ mathRoot = EmptyMath
    /\ npc = "idle"
    /\ cleanMathML = <<>>
    /\ rawTree = EmptyMath
    /\ NoCalls
    /\ AppMounted

\* const latex = match[1] || match[2]
latex == Or(match.g1, match.g2)

\* const isBlock = !!match[1]
isBlock == Truthy(match.g1)

\* if (!window.katex) return "KaTeX library not found."
KatexMissing ==
    /\ pc = "start"
    /\ ~katex
    /\ result' = KatexNotFound
    /\ pc' = "done"
    /\ UNCHANGED <<markdown, katex, lastIndex, match, output, count,
                   warnings, calls, spans>>
    /\ UNCHANGED normVars
    /\ UNCHANGED <<callVars, appVars>>

\* a count kept outside the function: not reset by a new call
Begin_KeepsCount ==
    /\ pc = "start"
    /\ katex
    /\ lastIndex' = 0
    /\ output' = <<>>
    /\ pc' = "exec"
    /\ UNCHANGED <<markdown, katex, match, count, result, warnings, calls,
                   spans>>
    /\ UNCHANGED normVars
    /\ UNCHANGED <<callVars, appVars>>

\* a fresh latexRegex, output = "", count = 0
Begin ==
    /\ pc = "start"
    /\ katex
    /\ lastIndex' = 0
    /\ output' = <<>>
    /\ count' = 0
    /\ pc' = "exec"
    /\ UNCHANGED <<markdown, katex, match, result, warnings, calls, spans>>
    /\ UNCHANGED normVars
    /\ UNCHANGED <<callVars, appVars>>

\* while ((match = latexRegex.exec(markdown)) !== null): a match is found
ExecMatch ==
    /\ pc = "exec"
    /\ RegexExec(markdown, lastIndex).found
    /\ match' = RegexExec(markdown, lastIndex)
    /\ lastIndex' = RegexExec(markdown, lastIndex).lastIndex
    /\ pc' = "render"
    /\ UNCHANGED <<markdown, katex, output, count, result, warnings, calls,
                   spans>>
    /\ UNCHANGED normVars
    /\ UNCHANGED <<callVars, appVars>>

\* exec returns null: the loop ends and lastIndex is reset
ExecNull ==
    /\ pc = "exec"
    /\ ~RegexExec(markdown, lastIndex).found
    /\ match' = NoMatch
    /\ lastIndex' = 0
    /\ pc' = "return"
    /\ UNCHANGED <<markdown, katex, output, count, result, warnings, calls,
                   spans>>
    /\ UNCHANGED normVars
    /\ UNCHANGED <<callVars, appVars>>

\* katex.renderToString(latex, {..., displayMode: isBlock, ...}) is called
RenderCall ==
    calls' = Append(calls, [latex |-> latex, displayMode |-> isBlock])

Span(outcome, fragment) ==
    [index |-> match.index, last |-> match.lastIndex, alt |-> match.alt,
     g1 |-> match.g1,
     g2 |-> match.g2, latex |-> latex, isBlock |-> isBlock,
     outcome |-> outcome, fragment |-> fragment]

\* a catch block that counts the failed span as an appended fragment
CatchWarn_Counted(outcome) ==
    /\ warnings' = warnings + 1
    /\ count' = count + 1
    /\ spans' = Append(spans, Span(outcome, <<>>))
    /\ pc' = "exec"
    /\ UNCHANGED <<markdown, katex, lastIndex, match, output, result>>
    /\ UNCHANGED normVars
    /\ UNCHANGED <<callVars, appVars>>

\* a catch block that lets the exception leave generateMathML
CatchWarn_Rethrow(outcome) ==
    /\ warnings' = warnings + 1
    /\ spans' = Append(spans, Span(outcome, <<>>))
    /\ pc' = "threw"
    /\ UNCHANGED <<markdown, katex, lastIndex, match, output, count, result>>
    /\ UNCHANGED normVars
    /\ UNCHANGED <<callVars, appVars>>

\* catch (e) { console.warn(...) }
CatchWarn(outcome) ==
    /\ warnings' = warnings + 1
    /\ spans' = Append(spans, Span(outcome, <<>>))
    /\ pc' = "exec"
    /\ UNCHANGED <<markdown, katex, lastIndex, match, output, count, result>>
    /\ UNCHANGED normVars
    /\ UNCHANGED <<callVars, appVars>>

\* renderToString throws
RenderThrows ==
    /\ pc = "render"
    /\ RenderCall
    /\ CatchWarn("throw")

\* renderToString returns a value without a match method: rawRender.match
\* raises a TypeError inside the try block
RenderNonString ==
    /\ pc = "render"
    /\ RenderCall
    /\ CatchWarn("nonstring")

\* rawRender.match(/<math[\s\S]*?<\/math>/) is null: the if is skipped
RenderNoMath ==
    /\ pc = "render"
    /\ RenderCall
    /\ spans' = Append(spans, Span("nomath", <<>>))
    /\ pc' = "exec"
    /\ UNCHANGED <<markdown, katex, lastIndex, match, output, count, result,
                   warnings>>
    /\ UNCHANGED normVars
    /\ UNCHANGED <<callVars, appVars>>

\* an assembly that puts each new fragment in front of the output
AppendFragment_Front(out, cnt, fragment) ==
    fragment \o (IF cnt > 0 THEN Separator \o out ELSE out)

\* if (count > 0) output += "\n\n"; output += cleanMathML
AppendFragment(out, cnt, fragment) ==
    (IF cnt > 0 THEN out \o Separator ELSE out) \o fragment

\* the output holds the <math> element tree: parse, rewrite, serialize,
\* append
RenderMathOf(tree) ==
    /\ pc = "render"
    /\ RenderCall
    /\ LET fragment == SerializeToString(NormalizeTree(tree))
       IN /\ output' = AppendFragment(output, count, fragment)
          /\ spans' = Append(spans, Span("ok", fragment))
    /\ count' = count + 1
    /\ pc' = "exec"
    /\ UNCHANGED <<markdown, katex, lastIndex, match, result, warnings>>
    /\ UNCHANGED normVars
    /\ UNCHANGED <<callVars, appVars>>

RenderMath == \E tree \in RenderTrees : RenderMathOf(tree)

\* a return without the fallback to the sentinel
Return_NoSentinel ==
    /\ pc = "return"
    /\ result' = output
    /\ pc' = "done"
    /\ UNCHANGED <<markdown, katex, lastIndex, match, output, count,
                   warnings, calls, spans>>
    /\ UNCHANGED normVars
    /\ UNCHANGED <<callVars, appVars>>

\* return output || "No mathematical formulas detected."
Return ==
    /\ pc = "return"
    /\ result' = IF output # <<>> THEN output ELSE Sentinel
    /\ pc' = "done"
    /\ UNCHANGED <<markdown, katex, lastIndex, match, output, count,
                   warnings, calls, spans>>
    /\ UNCHANGED normVars
    /\ UNCHANGED <<callVars, appVars>>

Next ==
    \/ KatexMissing
    \/ Begin
    \/ ExecMatch
    \/ ExecNull
    \/ RenderThrows
    \/ RenderNonString
    \/ RenderNoMath
    \/ RenderMath
    \/ Return

Spec == Init /\ [][Next]_vars

\* ------------------------------------------------------------------------
\* The rewrites of one <math> tree, one DOM operation at a time
\* ------------------------------------------------------------------------
InitNorm ==
    /\ markdown = <<>>
    /\ katex = TRUE
    /\ pc = "idle"
    /\ lastIndex = 0
    /\ match = NoMatch
    /\ output = <<>>
    /\ count = 0
    /\ result = <<>>
    /\ warnings = 0
    /\ calls = <<>>
    /\ spans = <<>>
    /\ mathRoot \in MathTrees(MaxNodes)
    /\ rawTree = mathRoot
    /\ npc = "annotations"
    /\ cleanMathML = <<>>
    /\ NoCalls
    /\ AppMounted

\* annotations[0].parentNode?.removeChild(annotations[0])
RemoveAnnotation ==
    /\ npc = "annotations"
    /\ Len(GetElementsByTagName(mathRoot, "annotation")) > 0
    /\ mathRoot' = RemoveChild(mathRoot,
                               GetElementsByTagName(mathRoot, "annotation")[1])
    /\ UNCHANGED <<npc, cleanMathML, rawTree>>
    /\ UNCHANGED scanVars
    /\ UNCHANGED <<callVars, appVars>>

\* annotations.length is 0
AnnotationsDone ==
    /\ npc = "annotations"
    /\ Len(GetElementsByTagName(mathRoot, "annotation")) = 0
    /\ npc' = "semantics"
    /\ UNCHANGED <<mathRoot, cleanMathML, rawTree>>
    /\ UNCHANGED scanVars
    /\ UNCHANGED <<callVars, appVars>>

\* the children of semantics[0] are moved before it and it is removed
UnwrapSemanticsStep ==
    /\ npc = "semantics"
    /\ Len(GetElementsByTagName(mathRoot, "semantics")) > 0
    /\ mathRoot' = PromoteChildren(mathRoot,
                               GetElementsByTagName(mathRoot, "semantics")[1])
    /\ UNCHANGED <<npc, cleanMathML, rawTree>>
    /\ UNCHANGED scanVars
    /\ UNCHANGED <<callVars, appVars>>

\* semantics.length is 0
SemanticsDone ==
    /\ npc = "semantics"
    /\ Len(GetElementsByTagName(mathRoot, "semantics")) = 0
    /\ npc' = "mrow"
    /\ UNCHANGED <<mathRoot, cleanMathML, rawTree>>
    /\ UNCHANGED scanVars
    /\ UNCHANGED <<callVars, appVars>>

\* if (mathRoot.children.length === 1 && children[0].tagName === 'mrow')
MrowStep ==
    /\ npc = "mrow"
    /\ mathRoot' = UnwrapTopMrow(mathRoot)
    /\ npc' = "serialize"
    /\ UNCHANGED <<cleanMathML, rawTree>>
    /\ UNCHANGED scanVars
    /\ UNCHANGED <<callVars, appVars>>

\* let cleanMathML = serializer.serializeToString(mathRoot)
SerializeStep ==
    /\ npc = "serialize"
    /\ cleanMathML' = SerializeToString(mathRoot)
    /\ npc' = "done"
    /\ UNCHANGED <<mathRoot, rawTree>>
    /\ UNCHANGED scanVars
    /\ UNCHANGED <<callVars, appVars>>

NextNorm ==
    \/ RemoveAnnotation
    \/ AnnotationsDone
    \/ UnwrapSemanticsStep
    \/ SemanticsDone
    \/ MrowStep
    \/ SerializeStep

SpecNorm == InitNorm /\ [][NextNorm]_vars

TypeOK ==
    /\ pc \in {"idle", "start", "exec", "render", "return", "done", "threw"}
    /\ npc \in {"idle", "annotations", "semantics", "mrow", "serialize",
                "done"}
    /\ count \in 0..MaxLen
    /\ warnings \in 0..MaxLen

\* ------------------------------------------------------------------------
\* Reference definitions used by the properties
\* ------------------------------------------------------------------------
\* the matches of latexRegex over the whole text, run to exhaustion
RECURSIVE ScanFrom(_, _)
ScanFrom(text, lastIdx) ==
    LET m == RegexExec(text, lastIdx)
    IN IF m.found THEN <<m>> \o ScanFrom(text, m.lastIndex) ELSE <<>>

ScanAll(text) == ScanFrom(text, 0)

Succeeded(sp) == SelectSeq(sp, LAMBDA s : s.outcome = "ok")

Failed(sp) == SelectSeq(sp, LAMBDA s : s.outcome # "ok")

\* fragments joined by one separator between neighbours
RECURSIVE Joined(_)
Joined(sp) ==
    IF sp = <<>> THEN <<>>
    ELSE IF Len(sp) = 1 THEN sp[1].fragment
    ELSE sp[1].fragment \o Separator \o Joined(Tail(sp))

NewlineCount(str) == Cardinality({i \in 1..Len(str) : str[i] = Tok("nl", "")})

\* the loop has visited exactly the matches of the text, left to right
VisitedAllInOrder ==
    /\ Len(spans) = Len(ScanAll(markdown))
    /\ \A i \in 1..Len(spans) : spans[i].index = ScanAll(markdown)[i].index
    /\ \A i \in 1..(Len(spans) - 1) : spans[i].index < spans[i + 1].index

Returned == pc = "done" /\ katex

\* ------------------------------------------------------------------------
\* Properties
\* ------------------------------------------------------------------------

\* C1: when every one of the N >= 1 spans of the text renders to a <math>
\* element, the returned string is the N normalized fragments in the
\* left-to-right order of their spans, with exactly two newlines between
\* neighbours and nothing before the first or after the last.
C1_AllSucceedJoinedInOrder ==
    (Returned /\ Len(spans) >= 1 /\ Failed(spans) = <<>>)
        => /\ VisitedAllInOrder
           /\ result = Joined(spans)
           /\ NewlineCount(result) = 2 * (Len(spans) - 1)

C1_Witness ==
    /\ Returned
    /\ Len(spans) = 3
    /\ Failed(spans) = <<>>
    /\ spans[1].fragment # spans[2].fragment
    /\ spans[2].fragment # spans[3].fragment

\* C2: when some but not all spans fail (the renderer throws, or its output
\* holds no <math> root), the returned string is the fragments of the
\* remaining spans in scan order with one "\n\n" between neighbours; a failed
\* span leaves no placeholder and no leading, trailing or doubled separator.
C2_FailedSpansOmitted ==
    (Returned /\ Failed(spans) # <<>> /\ Succeeded(spans) # <<>>)
        => /\ VisitedAllInOrder
           /\ result = Joined(Succeeded(spans))
           /\ NewlineCount(result) = 2 * (Len(Succeeded(spans)) - 1)
           /\ result[1] # Tok("nl", "")
           /\ result[Len(result)] # Tok("nl", "")

C2_Witness ==
    /\ Returned
    /\ Len(spans) = 3
    /\ spans[1].outcome = "throw"
    /\ spans[2].outcome = "ok"
    /\ spans[3].outcome = "ok"

\* C3: with the renderer present the call returns the sentinel exactly when
\* no span produced a fragment (no delimiter in the text, no span scanned, or
\* every span failed); it never returns the empty string and never throws.
C3_SentinelIffNothingSucceeded ==
    /\ pc # "threw"
    /\ Returned =>
          /\ result # <<>>
          /\ (result = Sentinel) <=> (Succeeded(spans) = <<>>)
          /\ (\A i \in 1..Len(markdown) : markdown[i] # "$")
                 => result = Sentinel
          /\ ScanAll(markdown) = <<>> => result = Sentinel

C3_Witness ==
    /\ Returned
    /\ Len(spans) = 2
    /\ spans[1].outcome = "throw"
    /\ spans[2].outcome = "nomath"
    /\ result = Sentinel

\* C4: with the renderer present the call never throws and never stops
\* early: whatever each renderer call does, every span of the text is handed
\* to the renderer, and the call returns a non-empty string.
C4_NeverThrowsNeverStopsEarly ==
    /\ pc # "threw"
    /\ Returned =>
          /\ Len(calls) = Len(ScanAll(markdown))
          /\ VisitedAllInOrder
          /\ result # <<>>

C4_Witness ==
    /\ Returned
    /\ Len(spans) = 3
    /\ spans[1].outcome = "throw"
    /\ spans[2].outcome = "nonstring"
    /\ Len(calls) = 3

\* C5: every failed span is reported: the number of diagnostics equals the
\* number of scanned spans minus the number of fragments in the output.
C5_EveryFailureReported ==
    Returned => warnings = Len(spans) - count

\* C6: when window.katex is missing the call does not return normally.
C6_MissingRendererIsHardFailure ==
    ~katex => pc # "done"

\* the text is prose, "$$", a payload without "$", "$$", prose
IsBlockRegion(text, p, q) ==
    /\ p + 2 <= q
    /\ q + 1 <= Len(text)
    /\ {i \in 1..Len(text) : text[i] = "$"} = {p, p + 1, q, q + 1}

\* C7: a text made of prose and one region $$X$$, X without "$", yields
\* exactly one span, a block span with payload X.
C7_BlockPrecedence ==
    Returned =>
        \A p, q \in 1..Len(markdown) :
            IsBlockRegion(markdown, p, q)
                => /\ Len(spans) = 1
                   /\ spans[1].alt = "block"
                   /\ spans[1].isBlock
                   /\ spans[1].latex = Str(SubSeq(markdown, p + 2, q - 1))

\* C8: for every span, isBlock is true iff the span was matched by the
\* $$...$$ form, and the renderer gets displayMode equal to that isBlock.
C8_IsBlockIffDoubleForm ==
    /\ Len(calls) = Len(spans)
    /\ \A i \in 1..Len(spans) :
          /\ spans[i].isBlock <=> (spans[i].alt = "block")
          /\ calls[i].displayMode = spans[i].isBlock

\* the text between the delimiters of a match
PayloadText(text, s) ==
    IF s.alt = "block" THEN SubSeq(text, s.index + 2, s.last - 2)
    ELSE SubSeq(text, s.index + 1, s.last - 1)

\* C9: the LaTeX passed to the renderer is exactly the text between the
\* delimiters of the match, the empty string for $$$$.
C9_PayloadIsTextBetweenDelimiters ==
    /\ Len(calls) = Len(spans)
    /\ \A i \in 1..Len(spans) :
          calls[i].latex = Str(PayloadText(markdown, spans[i]))

\* C10: no annotation element remains at any depth of the serialized
\* fragment, whatever the tree the renderer produced.
C10_NoAnnotationSerialized ==
    npc = "done" =>
        \A i \in 1..Len(cleanMathML) : cleanMathML[i][2] # "annotation"

C10_Witness ==
    /\ npc = "done"
    /\ rawTree.kids # <<>>
    /\ rawTree.kids[1].tag = "semantics"
    /\ rawTree.kids[1].kids # <<>>
    /\ rawTree.kids[1].kids[1].tag = "annotation"
    /\ rawTree.kids[1].kids[1].kids # <<>>
    /\ rawTree.kids[1].kids[1].kids[1].tag = "annotation"
    /\ Len(rawTree.kids) = 2
    /\ rawTree.kids[2].tag = "annotation"

\* ------------------------------------------------------------------------
\* Reference tree transforms, written as pure tree-to-tree functions
\* ------------------------------------------------------------------------
RECURSIVE HasElement(_, _)
\* some descendant of node is an element named tag
HasElement(node, tag) ==
    \E i \in 1..Len(node.kids) :
        node.kids[i].tag = tag \/ HasElement(node.kids[i], tag)

RECURSIVE WithoutAnnotations(_)
\* the tree without its annotation elements and what they hold
WithoutAnnotations(node) ==
    LET keep == SelectSeq(node.kids, LAMBDA k : k.tag # "annotation")
    IN [node EXCEPT
           !.kids = [i \in 1..Len(keep) |-> WithoutAnnotations(keep[i])]]

RECURSIVE SplicedKids(_)
\* the children with every semantics wrapper replaced by its own children
SplicedKids(kids) ==
    IF kids = <<>> THEN <<>>
    ELSE (IF Head(kids).tag = "semantics"
          THEN SplicedKids(Head(kids).kids)
          ELSE <<[Head(kids) EXCEPT !.kids = SplicedKids(@)]>>)
             \o SplicedKids(Tail(kids))

WithoutSemantics(root) == [root EXCEPT !.kids = SplicedKids(@)]

\* rule C as stated: a root whose only child is an mrow takes its children
SoleMrowUnwrapped(root) ==
    IF Len(root.kids) = 1 /\ root.kids[1].tag = "mrow"
    THEN [root EXCEPT !.kids = root.kids[1].kids]
    ELSE root

RECURSIVE OutlineFrom(_, _)
\* the nodes below kids in document order: tag, attributes and depth
OutlineFrom(kids, depth) ==
    IF kids = <<>> THEN <<>>
    ELSE <<[tag |-> Head(kids).tag, attrs |-> Head(kids).attrs,
            depth |-> depth]>>
             \o OutlineFrom(Head(kids).kids, depth + 1)
             \o OutlineFrom(Tail(kids), depth)

Outline(root) == OutlineFrom(root.kids, 1)

RECURSIVE SurvivorsFrom(_, _)
\* the nodes that are neither inside an annotation nor a semantics wrapper,
\* in document order, with the number of surviving ancestors as depth
SurvivorsFrom(kids, depth) ==
    IF kids = <<>> THEN <<>>
    ELSE (IF Head(kids).tag = "annotation" THEN <<>>
          ELSE IF Head(kids).tag = "semantics"
          THEN SurvivorsFrom(Head(kids).kids, depth)
          ELSE <<[tag |-> Head(kids).tag, attrs |-> Head(kids).attrs,
                  depth |-> depth]>>
                   \o SurvivorsFrom(Head(kids).kids, depth + 1))
             \o SurvivorsFrom(Tail(kids), depth)

\* the surviving nodes once the unwrapped top-level mrow is taken out
SurvivorsWithoutTopMrow(raw) ==
    LET sv == SurvivorsFrom(raw.kids, 1)
        top == SelectSeq(sv, LAMBDA n : n.depth = 1 /\ n.tag # "#text")
    IN IF Len(top) = 1 /\ top[1].tag = "mrow"
       THEN LET rest == SelectSeq(sv, LAMBDA n : n # top[1])
            IN [i \in 1..Len(rest) |->
                   IF rest[i].depth >= 2
                   THEN [rest[i] EXCEPT !.depth = @ - 1] ELSE rest[i]]
       ELSE sv

\* C11: once rule B has run, no semantics element is left at any depth, and
\* the children of every removed wrapper stand in the wrapper's former
\* parent at the wrapper's position, in their order, between its siblings.
C11_SemanticsUnwrappedInPlace ==
    /\ npc \in {"mrow", "serialize", "done"}
           => ~HasElement(mathRoot, "semantics")
    /\ npc = "mrow"
           => mathRoot = WithoutSemantics(WithoutAnnotations(rawTree))
    /\ npc = "done"
           => \A i \in 1..Len(cleanMathML) : cleanMathML[i][2] # "semantics"

C11_Witness ==
    /\ npc = "mrow"
    /\ Len(rawTree.kids) = 2
    /\ rawTree.kids[1].tag = "mi"
    /\ rawTree.kids[2].tag = "semantics"
    /\ Len(rawTree.kids[2].kids) = 1
    /\ rawTree.kids[2].kids[1].tag = "semantics"
    /\ Len(rawTree.kids[2].kids[1].kids) = 1
    /\ rawTree.kids[2].kids[1].kids[1].tag = "#text"
    /\ Len(mathRoot.kids) = 2
    /\ mathRoot.kids[2].tag = "#text"

\* C12: rule C fires iff, after rules A and B, the root has exactly one
\* child and it is an mrow; then the root takes that mrow's children and
\* nothing else is unwrapped; an mrow with any sibling stays in place.
C12_OnlySoleTopMrowUnwrapped ==
    npc \in {"serialize", "done"}
        => mathRoot
             = SoleMrowUnwrapped(WithoutSemantics(WithoutAnnotations(rawTree)))

MaxShapeNodes == 2

\* the attributes of the root: display="block" is added in display mode
RootAttrs == {<<"xmlns">>, <<"xmlns", "display">>}

\* what the annotation holds: nothing, or the LaTeX source as text
AnnotationContents == {<<>>, <<TextNode>>}

ShapeTree(attrs, X, Y) ==
    [tag |-> "math", attrs |-> attrs,
     kids |-> <<Element("semantics",
                  <<Element("mrow", X), Element("annotation", Y)>>)>>]

InitShape ==
    /\ markdown = <<>>
    /\ katex = TRUE
    /\ pc = "idle"
    /\ lastIndex = 0
    /\ match = NoMatch
    /\ output = <<>>
    /\ count = 0
    /\ result = <<>>
    /\ warnings = 0
    /\ calls = <<>>
    /\ spans = <<>>
    /\ \E attrs \in RootAttrs, Y \in AnnotationContents,
          X \in UNION {Forests(k) : k \in 0..MaxShapeNodes} :
              mathRoot = ShapeTree(attrs, X, Y)
    /\ rawTree = mathRoot
    /\ npc = "annotations"
    /\ cleanMathML = <<>>
    /\ NoCalls
    /\ AppMounted

SpecShape == InitShape /\ [][NextNorm]_vars

\* the content X of the mrow in the renderer's tree
ShapeX == rawTree.kids[1].kids[1].kids

\* C13 as stated: for every content X the root's children are exactly the
\* nodes of X in order, and the root's attributes are unchanged.
C13_ShapeYieldsX ==
    npc = "done"
        => /\ mathRoot.kids = ShapeX
           /\ mathRoot.tag = "math"
           /\ mathRoot.attrs = rawTree.attrs

\* X holds no annotation and no semantics element at any depth
PlainContent(X) ==
    /\ ~HasElement(Element("mrow", X), "annotation")
    /\ ~HasElement(Element("mrow", X), "semantics")

\* C13 (amended): when X holds no annotation or semantics element, the
\* normalized root has exactly the nodes of X as children, in order; the
\* annotation, the semantics wrapper and the mrow layer are gone and the
\* root's attributes are unchanged.
C13_ShapeYieldsPlainX ==
    (npc = "done" /\ PlainContent(ShapeX))
        => /\ mathRoot.kids = ShapeX
           /\ mathRoot.tag = "math"
           /\ mathRoot.attrs = rawTree.attrs
           /\ \A i \in 1..Len(cleanMathML) :
                  cleanMathML[i][2] \notin {"annotation", "semantics"}

C13_Witness ==
    /\ npc = "done"
    /\ rawTree.attrs = <<"xmlns", "display">>
    /\ ShapeX = <<Element("mi", <<TextNode>>)>>
    /\ rawTree.kids[1].kids[2].kids = <<TextNode>>
    /\ mathRoot.kids = <<Element("mi", <<TextNode>>)>>

\* ------------------------------------------------------------------------
\* The spans of the scan
\* ------------------------------------------------------------------------
\* "$$" stands at positions k, k + 1
DoubleAt(text, k) ==
    /\ k >= 1
    /\ k + 1 <= Len(text)
    /\ text[k] = "$"
    /\ text[k + 1] = "$"

\* the span s is delimited in text and closed by the first closing
\* delimiter of its kind after the opening one
ShortestSpan(text, s) ==
    IF s.alt = "block"
    THEN /\ DoubleAt(text, s.index)
         /\ DoubleAt(text, s.last - 1)
         /\ s.index + 2 <= s.last - 1
         /\ \A k \in (s.index + 2)..(s.last - 2) : ~DoubleAt(text, k)
         /\ s.g1 = Str(SubSeq(text, s.index + 2, s.last - 2))
    ELSE /\ s.alt = "inline"
         /\ text[s.index] = "$"
         /\ text[s.last] = "$"
         /\ s.index + 1 <= s.last - 1
         /\ \A k \in (s.index + 1)..(s.last - 1) : text[k] # "$"
         /\ s.g2 = Str(SubSeq(text, s.index + 1, s.last - 1))

\* C15: every span ends at the first closing delimiter of its own kind
\* after its opening delimiter, starts after the end of the previous span,
\* and the spans come in increasing start position.
C15_ShortestSpansNoOverlap ==
    /\ \A i \in 1..Len(spans) : ShortestSpan(markdown, spans[i])
    /\ \A i \in 1..(Len(spans) - 1) : spans[i + 1].index > spans[i].last
    /\ \A i, j \in 1..Len(spans) :
           i < j => spans[i].index < spans[j].index

C15_Witness ==
    /\ Returned
    /\ Len(spans) = 2
    /\ spans[1].alt = "block"
    /\ spans[1].index = 1
    /\ spans[1].last = 5
    /\ spans[2].alt = "inline"
    /\ \E k \in 6..(Len(markdown) - 1) : DoubleAt(markdown, k)

\* the text with every backslash replaced by a letter
Unescaped(text) ==
    [i \in 1..Len(text) |-> IF text[i] = "\\" THEN "a" ELSE text[i]]

\* C16: an inline payload is not empty, does not start with "$" and holds
\* no "$"; a backslash before a "$" changes nothing: the spans of a text are
\* those of the same text with its backslashes replaced by letters.
C16_InlinePayloadAndEscapes ==
    /\ \A i \in 1..Len(spans) :
           spans[i].alt = "inline"
               => /\ spans[i].latex = spans[i].g2
                  /\ spans[i].latex.def
                  /\ spans[i].latex.str # <<>>
                  /\ spans[i].latex.str[1] # "$"
                  /\ \A k \in 1..Len(spans[i].latex.str) :
                         spans[i].latex.str[k] # "$"
    /\ Returned =>
           LET plain == ScanAll(Unescaped(markdown))
           IN /\ Len(spans) = Len(plain)
              /\ \A i \in 1..Len(spans) :
                     /\ spans[i].index = plain[i].index
                     /\ spans[i].last = plain[i].lastIndex
                     /\ spans[i].alt = plain[i].alt

C16_Witness ==
    /\ Returned
    /\ markdown = <<"\\", "$", "a", "\\", "$", "a">>
    /\ Len(spans) = 1
    /\ spans[1].alt = "inline"
    /\ spans[1].latex = Str(<<"a", "\\">>)

\* ------------------------------------------------------------------------
\* handleDownloadAll: generateMathML called for one result after another,
\* with a deterministic renderer
\* ------------------------------------------------------------------------
\* longest markdown of a result in the export
MaxDocLen == 5

DocAlphabet == {"$", "a"}

DocTexts == UNION {[1..n -> DocAlphabet] : n \in 0..MaxDocLen}

Renderers == {"katex", "faulty"}

\* what renderToString(latex, {displayMode}) does, as a function of its
\* arguments.  "katex" throws a TypeError for a non-string and otherwise
\* returns one <mi> per character in the katex shape; "faulty" also returns
\* markup without <math> for one-character input.
Renderer(id, ltx, displayMode) ==
    IF ~ltx.def THEN [kind |-> "throw", tree |-> EmptyMath]
    ELSE IF id = "faulty" /\ Len(ltx.str) = 1
    THEN [kind |-> "nomath", tree |-> EmptyMath]
    ELSE [kind |-> "ok",
          tree |-> ShapeTree(
              IF displayMode THEN <<"xmlns", "display">> ELSE <<"xmlns">>,
              [i \in 1..Len(ltx.str) |-> Element("mi", <<TextNode>>)],
              <<TextNode>>)]

InitCalls ==
    /\ docs \in DocTexts \X DocTexts
    /\ returned = <<>>
    /\ renderer \in Renderers
    /\ NoZip
    /\ markdown = <<>>
    /\ katex \in BOOLEAN
    /\ pc = "idle"
    /\ lastIndex = 0
    /\ match = NoMatch
    /\ output = <<>>
    /\ count = 0
    /\ result = <<>>
    /\ warnings = 0
    /\ calls = <<>>
    /\ spans = <<>>
    /\ mathRoot = EmptyMath
    /\ npc = "idle"
    /\ cleanMathML = <<>>
    /\ rawTree = EmptyMath
    /\ AppMounted

\* const mathmlContent = generateMathML(result.markdown): the call is made;
\* the locals of the previous call are whatever that call left behind
CallGenerate ==
    /\ pc = "idle"
    /\ docs # <<>>
    /\ markdown' = Head(docs)
    /\ docs' = Tail(docs)
    /\ pc' = "start"
    /\ warnings' = 0
    /\ calls' = <<>>
    /\ spans' = <<>>
    /\ UNCHANGED <<katex, lastIndex, match, output, count, result>>
    /\ UNCHANGED <<returned, renderer, zipVars>>
    /\ UNCHANGED normVars
    /\ UNCHANGED appVars

\* zip.file(`${baseName}.xml`, mathmlContent)
StoreResult ==
    /\ pc = "done"
    /\ returned' = Append(returned, [markdown |-> markdown,
                                     result |-> result])
    /\ pc' = "idle"
    /\ UNCHANGED <<markdown, katex, lastIndex, match, output, count, result,
                   warnings, calls, spans>>
    /\ UNCHANGED <<docs, renderer, zipVars>>
    /\ UNCHANGED normVars
    /\ UNCHANGED appVars

\* the outcome of the renderer for the current match
rawRender == Renderer(renderer, latex, isBlock)

DetRenderThrows == pc = "render" /\ rawRender.kind = "throw" /\ RenderThrows

DetRenderNoMath == pc = "render" /\ rawRender.kind = "nomath" /\ RenderNoMath

DetRenderMath ==
    pc = "render" /\ rawRender.kind = "ok" /\ RenderMathOf(rawRender.tree)

NextCalls ==
    \/ CallGenerate
    \/ KatexMissing
    \/ Begin
    \/ ExecMatch
    \/ ExecNull
    \/ DetRenderThrows
    \/ DetRenderNoMath
    \/ DetRenderMath
    \/ Return
    \/ StoreResult

SpecCalls == InitCalls /\ [][NextCalls]_vars

RECURSIVE FragmentsOf(_, _)
\* the fragments of the matches ms whose rendering succeeds, in order
FragmentsOf(ms, id) ==
    IF ms = <<>> THEN <<>>
    ELSE LET m == Head(ms)
             r == Renderer(id, Or(m.g1, m.g2), Truthy(m.g1))
         IN (IF r.kind = "ok"
             THEN <<[fragment |->
                        SerializeToString(NormalizeTree(r.tree))]>>
             ELSE <<>>) \o FragmentsOf(Tail(ms), id)

\* generateMathML as a function of the text and the renderer alone
GenerateOf(text, id) ==
    LET out == Joined(FragmentsOf(ScanAll(text), id))
    IN IF out # <<>> THEN out ELSE Sentinel

\* C14: generateMathML keeps no state between calls: what a call returns is
\* a function of its text and the renderer alone, whatever was processed
\* before it, and two calls on the same text return the same string.
C14_NoStateBetweenCalls ==
    /\ \A i \in 1..Len(returned) :
           returned[i].result =
               IF katex THEN GenerateOf(returned[i].markdown, renderer)
               ELSE KatexNotFound
    /\ \A i, j \in 1..Len(returned) :
           returned[i].markdown = returned[j].markdown
               => returned[i].result = returned[j].result

C14_Witness ==
    /\ katex
    /\ renderer = "faulty"
    /\ Len(returned) = 2
    /\ returned[1].markdown = <<"$", "$", "a", "$", "$">>
    /\ returned[2].markdown = <<"$", "a", "a", "$">>
    /\ returned[1].result = Sentinel
    /\ returned[2].result # Sentinel

\* ------------------------------------------------------------------------
\* generateMathML with the rewrites of every rendered tree done one DOM
\* operation at a time
\* ------------------------------------------------------------------------
\* longest markdown text when the rewrites are stepped
MaxFullLen == 6

FullTexts == UNION {[1..n -> Alphabet] : n \in 0..MaxFullLen}

\* a tree with annotations inside an annotation and semantics in semantics
NestedTree ==
    Element("math",
        <<Element("semantics",
            <<Element("semantics",
                <<Element("mrow", <<Element("mi", <<TextNode>>)>>),
                  Element("annotation",
                      <<Element("annotation", <<TextNode>>)>>)>>),
              Element("annotation", <<TextNode>>)>>)>>)

FullTrees == {KatexTree, NestedTree, PlainTree, EmptyMath}

InitFull ==
    /\ markdown \in FullTexts
    /\ katex \in BOOLEAN
    /\ pc = "start"
    /\ lastIndex = 0
    /\ match = NoMatch
    /\ output = <<>>
    /\ count = 0
    /\ result = <<>>
    /\ warnings = 0
    /\ calls = <<>>
    /\ spans = <<>>
    /\ mathRoot = EmptyMath
    /\ npc = "idle"
    /\ cleanMathML = <<>>
    /\ rawTree = EmptyMath
    /\ NoCalls
    /\ AppMounted

\* doc = parser.parseFromString(mathMatch[0], "text/xml");
\* mathRoot = doc.documentElement
ParseMath ==
    /\ pc = "render"
    /\ RenderCall
    /\ \E tree \in FullTrees :
           /\ mathRoot' = tree
           /\ rawTree' = tree
    /\ npc' = "annotations"
    /\ cleanMathML' = <<>>
    /\ pc' = "normalize"
    /\ UNCHANGED <<markdown, katex, lastIndex, match, output, count, result,
                   warnings, spans>>
    /\ UNCHANGED <<callVars, appVars>>

\* if (count > 0) output += "\n\n"; output += cleanMathML; count++
AppendClean ==
    /\ pc = "normalize"
    /\ npc = "done"
    /\ output' = AppendFragment(output, count, cleanMathML)
    /\ count' = count + 1
    /\ spans' = Append(spans, Span("ok", cleanMathML))
    /\ pc' = "exec"
    /\ npc' = "idle"
    /\ UNCHANGED <<markdown, katex, lastIndex, match, result, warnings,
                   calls>>
    /\ UNCHANGED <<mathRoot, cleanMathML, rawTree>>
    /\ UNCHANGED <<callVars, appVars>>

NextFull ==
    \/ KatexMissing
    \/ Begin
    \/ ExecMatch
    \/ ExecNull
    \/ RenderThrows
    \/ RenderNonString
    \/ RenderNoMath
    \/ ParseMath
    \/ RemoveAnnotation
    \/ AnnotationsDone
    \/ UnwrapSemanticsStep
    \/ SemanticsDone
    \/ MrowStep
    \/ SerializeStep
    \/ AppendClean
    \/ Return

\* generateMathML is synchronous code on one thread: a step that can be
\* taken is taken
SpecFull == InitFull /\ [][NextFull]_vars /\ WF_vars(NextFull)

RECURSIVE CountElements(_, _)
RECURSIVE CountInKids(_, _)
\* the number of elements named tag below node
CountElements(node, tag) == CountInKids(node.kids, tag)

CountInKids(kids, tag) ==
    IF kids = <<>> THEN 0
    ELSE (IF Head(kids).tag = tag THEN 1 ELSE 0)
             + CountElements(Head(kids), tag) + CountInKids(Tail(kids), tag)

\* one iteration of the scan loop: the match is not empty and ends at least
\* one character after the end of the previous match
ScanStepConsumes ==
    (pc = "exec" /\ pc' = "render")
        => /\ match'.index >= lastIndex + 1
           /\ lastIndex' >= match'.index
           /\ lastIndex' >= lastIndex + 1
           /\ lastIndex' <= Len(markdown)

\* one iteration of a rewrite loop: fewer matching elements than before
LoopStepDecreases ==
    /\ (npc = "annotations" /\ npc' = "annotations")
           => CountElements(mathRoot', "annotation")
                  < CountElements(mathRoot, "annotation")
    /\ (npc = "semantics" /\ npc' = "semantics")
           => CountElements(mathRoot', "semantics")
                  < CountElements(mathRoot, "semantics")

\* C18: generateMathML terminates: every iteration of the scan loop
\* consumes at least one character beyond the previous match end, so there
\* are at most as many spans as characters; every iteration of the
\* annotation and semantics loops lowers the number of matching elements;
\* and the call reaches its return.
C18_Terminates ==
    /\ [](Len(spans) <= Len(markdown) /\ Len(calls) <= Len(markdown))
    /\ [][ScanStepConsumes /\ LoopStepDecreases]_vars
    /\ <>(pc = "done")

C18_Witness ==
    /\ Returned
    /\ Len(spans) = 2
    /\ spans[1].outcome = "ok"
    /\ spans[2].outcome = "ok"
    /\ rawTree = NestedTree

\* ------------------------------------------------------------------------
\* App: the upload queue, the results and processImages
\* ------------------------------------------------------------------------
\* files ever read by the uploader
MaxUploads == 2

\* processImages calls
MaxRuns == 2

\* { current, total } (etr is display only)
Progress(current, total) ==
    [set |-> TRUE, current |-> current, total |-> total]

\* a result that shows a failed conversion as markdown
ResultItem_AlwaysMarkdown(imageId, isError) ==
    [imageId |-> imageId, error |-> FALSE]

\* ResultItem: the markdown of the image, or the error block
ResultItem(imageId, isError) == [imageId |-> imageId, error |-> isError]

\* generateMathML is not running
ScanIdle ==
    /\ markdown = <<>>
    /\ katex = TRUE
    /\ pc = "idle"
    /\ lastIndex = 0
    /\ match = NoMatch
    /\ output = <<>>
    /\ count = 0
    /\ result = <<>>
    /\ warnings = 0
    /\ calls = <<>>
    /\ spans = <<>>
    /\ mathRoot = EmptyMath
    /\ npc = "idle"
    /\ cleanMathML = <<>>
    /\ rawTree = EmptyMath
    /\ NoCalls

InitApp ==
    /\ ScanIdle
    /\ AppMounted

\* the ids of n files read now: Math.random() + Date.now(), never reused
NewFiles(n) == [i \in 1..n |-> uploaded + i]

\* handleImagesSelected(newFiles), from drop, paste or the file input
HandleImagesSelected ==
    /\ \E n \in 1..(MaxUploads - uploaded) :
           /\ images' = images \o NewFiles(n)
           /\ uploaded' = uploaded + n
    /\ appState' = "IDLE"
    /\ errorMsg' = Undefined
    /\ UNCHANGED <<results, progress, runs, progressLog, converted>>
    /\ UNCHANGED <<scanVars, normVars, callVars>>

\* handleRemoveImage(id), from the remove button of a queued image
HandleRemoveImage ==
    /\ \E i \in 1..Len(images) :
           /\ images' = SelectSeq(images, LAMBDA img : img # images[i])
           /\ results' = SelectSeq(results,
                                   LAMBDA res : res.imageId # images[i])
    /\ UNCHANGED <<appState, progress, runs, progressLog, converted,
                   errorMsg, uploaded>>
    /\ UNCHANGED <<scanVars, normVars, callVars>>

\* handleClearAll, from the Clear All button (shown while images exist)
HandleClearAll ==
    /\ Len(images) > 0
    /\ images' = <<>>
    /\ results' = <<>>
    /\ appState' = "IDLE"
    /\ errorMsg' = Undefined
    /\ progress' = Null
    /\ progressLog' = Append(progressLog, Null)
    /\ UNCHANGED <<runs, converted, uploaded>>
    /\ UNCHANGED <<scanVars, normVars, callVars>>

\* the run awaits a conversion
InFlight(run) == run.completed < Len(run.queue)

\* a click on Convert Images: processImages up to its first await
ProcessImages ==
    /\ Len(runs) < MaxRuns
    /\ ~(Len(images) = 0 \/ appState = "PROCESSING")
    /\ appState' = "PROCESSING"
    /\ errorMsg' = Undefined
    /\ results' = <<>>
    /\ progress' = Progress(0, Len(images))
    /\ progressLog' = Append(progressLog, Progress(0, Len(images)))
    /\ runs' = Append(runs, [queue |-> images,
                             completed |-> 0,
                             outcomes |-> <<>>,
                             uploads |-> uploaded,
                             logStart |-> Len(progressLog),
                             callStart |-> Len(converted)])
    /\ converted' = Append(converted, images[1])
    /\ UNCHANGED <<images, uploaded>>
    /\ UNCHANGED <<scanVars, normVars, callVars>>

\* the awaited conversion of a run settles: the rest of the loop body, then
\* either the next call or the end of processImages
Settle(r, rejected) ==
    LET run == runs[r]
        completed == run.completed + 1
        total == Len(run.queue)
    IN  /\ InFlight(run)
        /\ results' = Append(results,
                             ResultItem(run.queue[completed], rejected))
        /\ runs' = [runs EXCEPT
                       ![r].completed = completed,
                       ![r].outcomes =
                           Append(@, IF rejected THEN "rejected"
                                                 ELSE "resolved")]
        /\ IF completed < total
           THEN /\ progress' = Progress(completed, total)
                /\ progressLog' =
                       Append(progressLog, Progress(completed, total))
                /\ converted' = Append(converted, run.queue[completed + 1])
                /\ UNCHANGED appState
           ELSE /\ appState' = "SUCCESS"
                /\ progress' = Null
                /\ progressLog' =
                       progressLog \o <<Progress(completed, total), Null>>
                /\ UNCHANGED converted
        /\ UNCHANGED <<images, errorMsg, uploaded>>
        /\ UNCHANGED <<scanVars, normVars, callVars>>

ConvertResolves == \E r \in 1..Len(runs) : Settle(r, FALSE)

ConvertRejects == \E r \in 1..Len(runs) : Settle(r, TRUE)

NextApp ==
    \/ HandleImagesSelected
    \/ HandleRemoveImage
    \/ HandleClearAll
    \/ ProcessImages
    \/ ConvertResolves
    \/ ConvertRejects

SpecApp == InitApp /\ [][NextApp]_vars

\* no processImages call awaits a conversion
Quiet == \A r \in 1..Len(runs) : ~InFlight(runs[r])

SelectWhenQuiet == Quiet /\ HandleImagesSelected

RemoveWhenQuiet == Quiet /\ HandleRemoveImage

ClearWhenQuiet == Quiet /\ HandleClearAll

\* the app when the user leaves it alone while a run is in flight
NextRun ==
    \/ SelectWhenQuiet
    \/ RemoveWhenQuiet
    \/ ClearWhenQuiet
    \/ ProcessImages
    \/ ConvertResolves
    \/ ConvertRejects

SpecRun == InitApp /\ [][NextRun]_vars

LatestRun == runs[Len(runs)]

\* what the run passed to setProgress so far
RunLog(run) == SubSeq(progressLog, run.logStart + 1, Len(progressLog))

\* the images the run handed to convertImageToMarkdown so far
RunCalls(run) == SubSeq(converted, run.callStart + 1, Len(converted))

\* no file was added and no image removed since the latest run started
\* (ids are never reused, so a removed image never comes back)
Undisturbed ==
    /\ runs # <<>>
    /\ images = LatestRun.queue
    /\ uploaded = LatestRun.uploads

\* C19: in one processImages run with no user action in between, the
\* images are handed to the converter one at a time in queue order, every
\* settled conversion appended exactly one ResultItem in that order
\* (markdown on success, an error item on failure), a failure does not
\* stop the later conversions, setProgress received current = 0, 1, ...,
\* total, and the finished run leaves appState SUCCESS and progress null.
C19_RunConvertsQueueInOrder ==
    Undisturbed =>
        LET run == LatestRun
            n == run.completed
            total == Len(run.queue)
        IN  /\ Len(run.outcomes) = n
            /\ RunCalls(run)
                   = SubSeq(run.queue, 1, IF n < total THEN n + 1 ELSE total)
            /\ results
                   = [i \in 1..n |->
                         [imageId |-> run.queue[i],
                          error |-> run.outcomes[i] = "rejected"]]
            /\ RunLog(run)
                   = [i \in 1..(n + 1) |->
                         [set |-> TRUE, current |-> i - 1, total |-> total]]
                     \o (IF n = total THEN <<Null>> ELSE <<>>)
            /\ IF n < total
               THEN /\ appState = "PROCESSING"
                    /\ progress
                           = [set |-> TRUE, current |-> n, total |-> total]
               ELSE /\ appState = "SUCCESS"
                    /\ progress = Null

C19_Witness ==
    /\ Undisturbed
    /\ LatestRun.outcomes = <<"rejected", "resolved">>
    /\ Len(results) = 2
    /\ appState = "SUCCESS"

\* the ids in the upload queue
QueuedIds == {images[i] : i \in 1..Len(images)}

\* C20: in every reachable state of the app, every item in results refers
\* to an image that is currently in images, whatever the interleaving of
\* Remove, Clear All, added files and completions of an in-flight run.
C20_ResultsReferToImages ==
    \A i \in 1..Len(results) : results[i].imageId \in QueuedIds

\* the processImages calls that await a conversion
RunsInFlight == {r \in 1..Len(runs) : InFlight(runs[r])}

\* C21: at most one processImages run is in flight at any time and results
\* never holds two items with the same imageId, also when files are added
\* (handleImagesSelected sets appState to IDLE) while a run is in flight.
C21_OneRunNoDuplicateResults ==
    /\ Cardinality(RunsInFlight) <= 1
    /\ \A i, j \in 1..Len(results) :
           results[i].imageId = results[j].imageId => i = j

\* ------------------------------------------------------------------------
\* handleDownloadAll: the names of the archive entries
\* ------------------------------------------------------------------------
\* most results in one export
MaxResults == 3

\* image.file.name of the uploaded images, as character sequences
FileNames ==
    { <<"a", ".", "p", "n", "g">>,
      <<"a", ".", "j", "p", "g">>,
      <<"a", "_", "2", ".", "p", "n", "g">>,
      <<"a", "_", "2">>,
      <<"p", "a", "g", "e", ".", "p", "n", "g">> }

\* images.find(img => img.id === result.imageId): an image or undefined
ImageLookups ==
    {[found |-> FALSE, name |-> <<>>]}
        \cup {[found |-> TRUE, name |-> f] : f \in FileNames}

ResultLookups == UNION {[1..n -> ImageLookups] : n \in 1..MaxResults}

\* name.replace(/\.[^/.]+$/, ""): a final dot followed by one or more
\* characters other than dot and slash is cut off
ReplaceExtension(name) ==
    LET dots == {i \in 1..Len(name) :
                    /\ name[i] = "."
                    /\ i < Len(name)
                    /\ \A j \in (i + 1)..Len(name) : name[j] \notin {".", "/"}}
    IN  IF dots = {} THEN name
        ELSE SubSeq(name, 1, (CHOOSE i \in dots : \A k \in dots : i <= k) - 1)

Digits == <<"0", "1", "2", "3", "4", "5", "6", "7", "8", "9">>

RECURSIVE Decimal(_)
\* `${n}` for a positive count
Decimal(n) ==
    IF n < 10 THEN <<Digits[n + 1]>>
    ELSE Decimal(n \div 10) \o <<Digits[(n % 10) + 1]>>

\* usedNames[baseName], 0 when the key is absent (undefined is falsy)
UsedCount(used, baseName) ==
    IF \E i \in 1..Len(used) : used[i].name = baseName
    THEN used[CHOOSE i \in 1..Len(used) : used[i].name = baseName].count
    ELSE 0

\* usedNames[baseName] = n
SetUsed(used, baseName, n) ==
    IF \E i \in 1..Len(used) : used[i].name = baseName
    THEN [i \in 1..Len(used) |->
             IF used[i].name = baseName
             THEN [name |-> baseName, count |-> n] ELSE used[i]]
    ELSE Append(used, [name |-> baseName, count |-> n])

\* zip.file(name, content): an entry of that name is replaced
ZipFile(entries, name, content) ==
    IF \E i \in 1..Len(entries) : entries[i].name = name
    THEN [i \in 1..Len(entries) |->
             IF entries[i].name = name
             THEN [name |-> name, content |-> content] ELSE entries[i]]
    ELSE Append(entries, [name |-> name, content |-> content])

\* a click on the download button: new JSZip(), usedNames = {}
InitZip ==
    /\ fileNames \in ResultLookups
    /\ usedNames = <<>>
    /\ zip = <<>>
    /\ written = <<>>
    /\ docs = <<>>
    /\ returned = <<>>
    /\ renderer = "any"
    /\ markdown = <<>>
    /\ katex = TRUE
    /\ pc = "zipping"
    /\ lastIndex = 0
    /\ match = NoMatch
    /\ output = <<>>
    /\ count = 0
    /\ result = <<>>
    /\ warnings = 0
    /\ calls = <<>>
    /\ spans = <<>>
    /\ mathRoot = EmptyMath
    /\ npc = "idle"
    /\ cleanMathML = <<>>
    /\ rawTree = EmptyMath
    /\ AppMounted

\* one iteration of results.forEach; the content of the entry is recorded
\* as the position of the result it was generated from
ZipEntry ==
    /\ pc = "zipping"
    /\ fileNames # <<>>
    /\ LET image == Head(fileNames)
           baseName == IF image.found THEN ReplaceExtension(image.name)
                       ELSE <<"p", "a", "g", "e">>
           n == UsedCount(usedNames, baseName)
           entry == IF n > 0
                    THEN baseName \o <<"_">> \o Decimal(n + 1)
                    ELSE baseName
           name == entry \o <<".", "x", "m", "l">>
       IN  /\ usedNames' = SetUsed(usedNames, baseName, n + 1)
           /\ zip' = ZipFile(zip, name, Len(written) + 1)
           /\ written' = Append(written, name)
    /\ fileNames' = Tail(fileNames)
    /\ UNCHANGED <<docs, returned, renderer>>
    /\ UNCHANGED <<scanVars, normVars, appVars>>

\* zip.generateAsync and downloadBlob
DownloadBlob ==
    /\ pc = "zipping"
    /\ fileNames = <<>>
    /\ pc' = "downloaded"
    /\ UNCHANGED <<markdown, katex, lastIndex, match, output, count, result,
                   warnings, calls, spans>>
    /\ UNCHANGED <<normVars, callVars, appVars>>

NextZip ==
    \/ ZipEntry
    \/ DownloadBlob

SpecZip == InitZip /\ [][NextZip]_vars

\* C22: in handleDownloadAll every result gets its own entry: the entry
\* names are pairwise distinct, so the archive holds as many entries as
\* results were written and no entry overwrote another.
C22_EveryResultOwnEntry ==
    /\ \A i, j \in 1..Len(written) : written[i] = written[j] => i = j
    /\ Len(zip) = Len(written)
    /\ \A i \in 1..Len(zip) : zip[i].content = i

====
